---- MODULE Spec2Model ----
(***************************************************************************)
(* A model of dada-poem-tool: the poem assembler (assemble_poem), the      *)
(* language detector (detect_language), the heuristic word classifier      *)
(* (extract_nouns_verbs_heuristic) and the two request pipelines, the      *)
(* command line (main) and the web service (generate).                     *)
(*                                                                         *)
(* A Python str is a sequence of one-character strings, so that joining,   *)
(* splitting, stripping, suffix tests and character classes are computed.  *)
(***************************************************************************)
EXTENDS Integers, Sequences, FiniteSets, TLC

VARIABLES
    \* assemble_poem: its arguments, its locals, and where it stands
    words, lines, words_list, segment_size, idx, result, pc,
    \* history of assemble_poem's loop: one record per line produced
    log,
    \* detect_language: its argument and what it returned ("none" before the call)
    dl_text, dl_ret,
    \* extract_nouns_verbs_heuristic: its argument, what it returned, and
    \* whether it has returned
    h_text, h_ret, h_pc,
    \* one request, to main or to generate: which of the two, what it is given
    \* (the image, what OCR makes of it, --lang, the spaCy models that load),
    \* its locals, where it stands, the functions it has called, the temporary
    \* file, its poem lines, and how it ended
    mode, image, ocr, lang_arg, models,
    text, lang, nlp, rpc, calls, tmp, poem_lines, outcome

poemVars == <<words, lines, words_list, segment_size, idx, result, pc, log>>

langVars == <<dl_text, dl_ret>>

heurVars == <<h_text, h_ret, h_pc>>

pipeVars ==
    <<mode, image, ocr, lang_arg, models,
      text, lang, nlp, rpc, calls, tmp, poem_lines, outcome>>

vars == <<poemVars, langVars, heurVars, pipeVars>>

(***************************************************************************)
(* Bounds of the model.                                                    *)
(***************************************************************************)
MaxPool == 6
MaxLines == 6
MaxTextLen == 4
MaxPieces == 3

(***************************************************************************)
(* Python's built-ins, as the code uses them.                              *)
(***************************************************************************)
Range(s) == {s[i] : i \in 1..Len(s)}

Min(a, b) == IF a < b THEN a ELSE b

Max(a, b) == IF a > b THEN a ELSE b

\* the number of occurrences of x in the list s
Count(s, x) == Cardinality({i \in 1..Len(s) : s[i] = x})

\* s[a:b] for 0 <= a <= b
Slice(s, a, b) == SubSeq(s, a + 1, Min(b, Len(s)))

\* the lists random.shuffle can leave in place of s: its rearrangements
Shuffles(s) ==
    {t \in [1..Len(s) -> Range(s)] : \A x \in Range(s) : Count(t, x) = Count(s, x)}

\* " ".join(segment)
RECURSIVE Join(_)
Join(segment) ==
    IF segment = <<>> THEN <<>>
    ELSE IF Len(segment) = 1 THEN segment[1]
    ELSE segment[1] \o <<" ">> \o Join(Tail(segment))

(***************************************************************************)
(* assemble_poem                                                           *)
(***************************************************************************)
\* the words a pool is drawn from
Vocabulary == { <<"U","h","r">>, <<"g","e","h","t">> }

\* the placeholder put into English
Placeholder_English ==
    << "(","n","o"," ","w","o","r","d","s"," ","f","o","u","n","d",")" >>

Placeholder ==
    << "(","k","e","i","n","e"," ","W","ö","r","t","e","r"," ",
       "g","e","f","u","n","d","e","n",")" >>

\* the segment size without its lower clamp
SegmentSize_NoFloor(k, n) == Min(5, k \div n)

\* max(2, min(5, len(words_list) // lines or 2)), for lines # 0
SegmentSize(k, n) ==
    LET q == k \div n
    IN  Max(2, Min(5, IF q = 0 THEN 2 ELSE q))

\* at entry the locals are unbound: segment_size is 0 until it is assigned
InitPoem ==
    /\ words \in UNION {[1..k -> Vocabulary] : k \in 0..MaxPool}
    /\ lines \in 0..MaxLines
    /\ words_list = <<>>
    /\ segment_size = 0
    /\ idx = 0
    /\ result = <<>>
    /\ log = <<>>
    /\ pc = "start"

\* words_list = list(words); random.shuffle(words_list)
CopyAndShuffle ==
    /\ pc = "start"
    /\ \E s \in Shuffles(words) : words_list' = s
    /\ pc' = "shuffled"
    /\ UNCHANGED <<words, lines, segment_size, idx, result, log>>
    /\ UNCHANGED <<langVars, heurVars, pipeVars>>

\* if not words_list: return [placeholder] * lines
ReturnPlaceholder ==
    /\ pc = "shuffled"
    /\ words_list = <<>>
    /\ result' = [i \in 1..lines |-> Placeholder]
    /\ pc' = "done"
    /\ UNCHANGED <<words, lines, words_list, segment_size, idx, log>>
    /\ UNCHANGED <<langVars, heurVars, pipeVars>>

\* result = []; segment_size = ...; idx = 0
ComputeSegmentSize ==
    /\ pc = "shuffled"
    /\ words_list # <<>>
    /\ lines # 0
    /\ segment_size' = SegmentSize(Len(words_list), lines)
    /\ idx' = 0
    /\ result' = <<>>
    /\ pc' = "loop"
    /\ UNCHANGED <<words, lines, words_list, log>>
    /\ UNCHANGED <<langVars, heurVars, pipeVars>>

\* len(words_list) // lines with lines = 0 raises ZeroDivisionError
DivisionByZero ==
    /\ pc = "shuffled"
    /\ words_list # <<>>
    /\ lines = 0
    /\ pc' = "raised"
    /\ UNCHANGED <<words, lines, words_list, segment_size, idx, result, log>>
    /\ UNCHANGED <<langVars, heurVars, pipeVars>>

\* the test off by one: the last word of a pass is never used
Exhausted_Early(i, wl) == i + 1 >= Len(wl)

\* whether the loop's test  idx >= len(words_list)  sends it to the reshuffle
Exhausted(i, wl) == i >= Len(wl)

\* one iteration of  for _ in range(lines)
NextLine ==
    /\ pc = "loop"
    /\ Len(result) < lines
    /\ LET reshuffle == Exhausted(idx, words_list)
       IN  \E wl \in (IF reshuffle THEN Shuffles(words_list) ELSE {words_list}) :
             LET at == IF reshuffle THEN 0 ELSE idx
                 end_idx == at + segment_size
                 segment == Slice(wl, at, end_idx)
             IN  /\ words_list' = wl
                 /\ idx' = end_idx
                 /\ result' = Append(result, Join(segment))
                 /\ log' = Append(log, [reshuffled |-> reshuffle, cursor |-> idx,
                                        from |-> at, list |-> wl,
                                        size |-> segment_size])
    /\ UNCHANGED <<words, lines, segment_size, pc>>
    /\ UNCHANGED <<langVars, heurVars, pipeVars>>

\* return result
ReturnPoem ==
    /\ pc = "loop"
    /\ Len(result) = lines
    /\ pc' = "done"
    /\ UNCHANGED <<words, lines, words_list, segment_size, idx, result, log>>
    /\ UNCHANGED <<langVars, heurVars, pipeVars>>

NextPoem ==
    \/ CopyAndShuffle
    \/ ReturnPlaceholder
    \/ ComputeSegmentSize
    \/ DivisionByZero
    \/ NextLine
    \/ ReturnPoem

IdlePoem ==
    /\ words = <<>>
    /\ lines = 0
    /\ words_list = <<>>
    /\ segment_size = 0
    /\ idx = 0
    /\ result = <<>>
    /\ log = <<>>
    /\ pc = "idle"

(***************************************************************************)
(* detect_language                                                         *)
(***************************************************************************)
\* the characters a text given to detect_language is made of
LangAlphabet == {"ä", "ö", "ü", "Ä", "Ö", "Ü", "ß", "e", "S"}

\* the set without the capitals
german_chars_lower == {"ä", "ö", "ü", "ß"}

\* german_chars = set("äöüÄÖÜß")
german_chars == {"ä", "ö", "ü", "Ä", "Ö", "Ü", "ß"}

\* if any(ch in german_chars for ch in text): return "de"; return "en"
detect_language(txt) ==
    IF \E i \in 1..Len(txt) : txt[i] \in german_chars THEN "de" ELSE "en"

InitLang ==
    /\ dl_text \in UNION {[1..k -> LangAlphabet] : k \in 0..MaxTextLen}
    /\ dl_ret = "none"

IdleLang ==
    /\ dl_text = <<>>
    /\ dl_ret = "none"

DetectLanguage ==
    /\ dl_ret = "none"
    /\ dl_ret' = detect_language(dl_text)
    /\ UNCHANGED <<dl_text, poemVars, heurVars, pipeVars>>

(***************************************************************************)
(* extract_nouns_verbs_heuristic                                           *)
(***************************************************************************)
\* the character classes of the characters the texts are made of
UpperLetters == {"A", "E", "G", "N"}

LowerLetters ==
    {"a", "b", "d", "e", "f", "g", "i", "l", "n", "o", "p", "r", "s", "t", "u", "w",
     "ö", "ß"}

Digits == {"2", "4"}

\* str.isupper, str.isalpha, str.isdigit on one character, and \w
IsUpper(c) == c \in UpperLetters

IsAlpha(c) == c \in UpperLetters \cup LowerLetters

IsDigit(c) == c \in Digits

IsWordChar(c) == IsAlpha(c) \/ IsDigit(c) \/ c = "_"

\* token.isalpha(), token.isdigit()
isalpha(token) == token # <<>> /\ \A i \in 1..Len(token) : IsAlpha(token[i])

isdigit(token) == token # <<>> /\ \A i \in 1..Len(token) : IsDigit(token[i])

\* token.lower()
LowerChar(c) ==
    CASE c = "A" -> "a"
      [] c = "E" -> "e"
      [] c = "G" -> "g"
      [] c = "N" -> "n"
      [] OTHER -> c

lower(token) == [i \in 1..Len(token) |-> LowerChar(token[i])]

\* s.endswith(suffix), and s.endswith(tuple of suffixes)
EndsWith(s, suffix) ==
    /\ Len(suffix) <= Len(s)
    /\ SubSeq(s, Len(s) - Len(suffix) + 1, Len(s)) = suffix

endswith(s, suffixes) == \E x \in suffixes : EndsWith(s, x)

\* re.findall(r"\b\w+\b", text): the maximal runs of word characters, in order
RECURSIVE FindAll(_, _, _)
FindAll(txt, i, cur) ==
    IF i > Len(txt) THEN (IF cur = <<>> THEN <<>> ELSE <<cur>>)
    ELSE IF IsWordChar(txt[i]) THEN FindAll(txt, i + 1, Append(cur, txt[i]))
    ELSE (IF cur = <<>> THEN <<>> ELSE <<cur>>) \o FindAll(txt, i + 1, <<>>)

Tokens(txt) == FindAll(txt, 1, <<>>)

\* the endings without "end"
german_verb_endings_NoEnd == { <<"e","n">>, <<"s","t">>, <<"t">> }

\* german_verb_endings = ("en", "st", "t", "end")
german_verb_endings == { <<"e","n">>, <<"s","t">>, <<"t">>, <<"e","n","d">> }

\* the body of  for token in tokens,  with the words collected so far
RECURSIVE HeuristicLoop(_, _)
HeuristicLoop(tokens, collected) ==
    IF tokens = <<>> THEN collected
    ELSE LET token == Head(tokens)
             rest == Tail(tokens)
         IN  IF Len(token) <= 1 \/ isdigit(token)
                 THEN HeuristicLoop(rest, collected)
             ELSE IF IsUpper(token[1])
                 THEN HeuristicLoop(rest, Append(collected, token))
             ELSE IF endswith(lower(token), german_verb_endings)
                 THEN HeuristicLoop(rest, Append(collected, token))
             ELSE IF isalpha(token) /\ Len(token) > 3
                 THEN HeuristicLoop(rest, Append(collected, token))
             ELSE HeuristicLoop(rest, collected)

extract_nouns_verbs_heuristic(txt) == HeuristicLoop(Tokens(txt), <<>>)

\* what a text given to the classifier is put together from: tokens of every
\* kind the rules tell apart, and what stands between two of them (nothing, so
\* that they run together, or characters that are not word characters)
Pieces ==
    { <<"A","p","f","e","l">>, <<"A","b">>, <<"r","e","n","n","e","n">>,
      <<"i","s","t">>, <<"e","n","d">>, <<"b","E","N">>,
      <<"w","o","n","d","e","r","f","u","l">>, <<"b","i","g">>,
      <<"4","2">>, <<"4","t">>, <<"a">>, <<"a","b","_","a","b">> }

Separators == { <<>>, <<" ">>, <<",", " ">>, <<"\n">> }

RECURSIVE JoinWith(_, _)
JoinWith(pieces, sep) ==
    IF pieces = <<>> THEN <<>>
    ELSE IF Len(pieces) = 1 THEN pieces[1]
    ELSE pieces[1] \o sep \o JoinWith(Tail(pieces), sep)

Texts ==
    {JoinWith(ps, sep) : ps \in UNION {[1..k -> Pieces] : k \in 0..MaxPieces},
                         sep \in Separators}

InitHeur ==
    /\ h_text \in Texts
    /\ h_ret = <<>>
    /\ h_pc = "start"

IdleHeur ==
    /\ h_text = <<>>
    /\ h_ret = <<>>
    /\ h_pc = "idle"

ExtractHeuristic ==
    /\ h_pc = "start"
    /\ h_ret' = extract_nouns_verbs_heuristic(h_text)
    /\ h_pc' = "done"
    /\ UNCHANGED <<h_text, poemVars, langVars, pipeVars>>

(***************************************************************************)
(* The request pipelines: main (command line) and generate (web service)   *)
(***************************************************************************)
Whitespace == {" ", "\n", "\t"}

\* text.strip() without the stripping
strip_Nothing(s) == s

\* text.strip()
RECURSIVE strip(_)
strip(s) ==
    IF s = <<>> THEN s
    ELSE IF s[1] \in Whitespace THEN strip(Tail(s))
    ELSE IF s[Len(s)] \in Whitespace THEN strip(SubSeq(s, 1, Len(s) - 1))
    ELSE s

\* what OCR can make of an image: no text, white space alone, a text without
\* candidate words, a German text, an English text
OcrTexts ==
    { <<>>,
      <<" ", "\n">>,
      <<"b","i","g">>,
      <<"G","r","ö","ß","e"," ","i","s","t">>,
      <<"A","b"," ","e","n","d","\n","i","s","t">> }

\* extract_text either raises RuntimeError or returns the text
OcrOutcomes ==
    {[ok |-> FALSE, text |-> <<>>]} \cup {[ok |-> TRUE, text |-> t] : t \in OcrTexts}

\* load_spacy_pipeline(lang) is not None: spaCy is installed, the language has
\* a model name, and the model loads
load_spacy_pipeline(l) == l \in {"de", "en"} /\ l \in models

\* what extract_nouns_verbs_spacy can return: the alphabetic tokens the tagger
\* gives one of the four tags, in document order (the tagger is not modelled:
\* any choice of tokens)
SpacyResults(t) ==
    LET toks == SelectSeq(Tokens(t), isalpha)
        Pick(keep) ==
            LET F[i \in 0..Len(toks)] ==
                    IF i = 0 THEN <<>>
                    ELSE IF i \in keep THEN Append(F[i - 1], toks[i]) ELSE F[i - 1]
            IN  F[Len(toks)]
    IN  {Pick(keep) : keep \in SUBSET (1..Len(toks))}

InitPipe ==
    /\ mode \in {"cli", "service"}
    /\ image \in {"present", "missing"}
    /\ ocr \in OcrOutcomes
    /\ lang_arg \in (IF mode = "cli" THEN {"none", "de", "en"} ELSE {"none"})
    /\ models \in SUBSET {"de", "en"}
    /\ text = <<>>
    /\ lang = "none"
    /\ nlp = FALSE
    /\ rpc = "start"
    /\ calls = <<>>
    /\ tmp = "none"
    /\ poem_lines = <<>>
    /\ outcome = [kind |-> "running"]

IdlePipe ==
    /\ mode = "idle"
    /\ image = "missing"
    /\ ocr = [ok |-> FALSE, text |-> <<>>]
    /\ lang_arg = "none"
    /\ models = {}
    /\ text = <<>>
    /\ lang = "none"
    /\ nlp = FALSE
    /\ rpc = "idle"
    /\ calls = <<>>
    /\ tmp = "none"
    /\ poem_lines = <<>>
    /\ outcome = [kind |-> "idle"]

inputs == <<mode, image, ocr, lang_arg, models>>

\* main: if not os.path.isfile(args.image): print(..., file=sys.stderr); sys.exit(1)
CliMissingFile ==
    /\ mode = "cli" /\ rpc = "start"
    /\ image = "missing"
    /\ outcome' = [kind |-> "exit", code |-> 1, stream |-> "stderr",
                   message |-> "Error: file does not exist."]
    /\ rpc' = "end"
    /\ UNCHANGED <<inputs, text, lang, nlp, calls, tmp, poem_lines>>
    /\ UNCHANGED <<poemVars, langVars, heurVars>>

\* main: text = extract_text(args.image); a RuntimeError is not caught
CliExtractText ==
    /\ mode = "cli" /\ rpc = "start"
    /\ image = "present"
    /\ calls' = Append(calls, "extract_text")
    /\ IF ~ ocr.ok
         THEN /\ outcome' = [kind |-> "exit", code |-> 1, stream |-> "stderr",
                             message |-> "RuntimeError: Unable to open or process image"]
              /\ rpc' = "end"
              /\ UNCHANGED text
         ELSE /\ text' = ocr.text
              /\ rpc' = "extracted"
              /\ UNCHANGED outcome
    /\ UNCHANGED <<inputs, lang, nlp, tmp, poem_lines>>
    /\ UNCHANGED <<poemVars, langVars, heurVars>>

\* main: if not text.strip(): print("No text detected in the image."); sys.exit(0)
CliNoText ==
    /\ mode = "cli" /\ rpc = "extracted"
    /\ strip(text) = <<>>
    /\ outcome' = [kind |-> "exit", code |-> 0, stream |-> "stdout",
                   message |-> "No text detected in the image."]
    /\ rpc' = "end"
    /\ UNCHANGED <<inputs, text, lang, nlp, calls, tmp, poem_lines>>
    /\ UNCHANGED <<poemVars, langVars, heurVars>>

\* main: lang = args.lang or detect_language(text)
CliLanguage ==
    /\ mode = "cli" /\ rpc = "extracted"
    /\ strip(text) # <<>>
    /\ IF lang_arg # "none"
         THEN lang' = lang_arg /\ UNCHANGED calls
         ELSE lang' = detect_language(text) /\ calls' = Append(calls, "detect_language")
    /\ rpc' = "language"
    /\ UNCHANGED <<inputs, text, nlp, tmp, poem_lines, outcome>>
    /\ UNCHANGED <<poemVars, langVars, heurVars>>

\* main: nlp = load_spacy_pipeline(lang)
CliLoadModel ==
    /\ mode = "cli" /\ rpc = "language"
    /\ nlp' = load_spacy_pipeline(lang)
    /\ calls' = Append(calls, "load_spacy_pipeline")
    /\ rpc' = "loaded"
    /\ UNCHANGED <<inputs, text, lang, tmp, poem_lines, outcome>>
    /\ UNCHANGED <<poemVars, langVars, heurVars>>

\* main: if nlp is not None: words = extract_nouns_verbs_spacy(text, nlp)
\*       else: words = extract_nouns_verbs_heuristic(text)
CliClassify ==
    /\ mode = "cli" /\ rpc = "loaded"
    /\ IF nlp
         THEN /\ \E ws \in SpacyResults(text) : words' = ws
              /\ calls' = Append(calls, "extract_nouns_verbs_spacy")
         ELSE /\ words' = extract_nouns_verbs_heuristic(text)
              /\ calls' = Append(calls, "extract_nouns_verbs_heuristic")
    /\ rpc' = "classified"
    /\ UNCHANGED <<inputs, text, lang, nlp, tmp, poem_lines, outcome>>
    /\ UNCHANGED <<lines, words_list, segment_size, idx, result, pc, log>>
    /\ UNCHANGED <<langVars, heurVars>>

\* main: if not words: print("Keine Substantive ..."); sys.exit(0)
CliNoWords ==
    /\ mode = "cli" /\ rpc = "classified"
    /\ words = <<>>
    /\ outcome' = [kind |-> "exit", code |-> 0, stream |-> "stdout",
                   message |-> "Keine Substantive oder Verben gefunden (no nouns or verbs found)."]
    /\ rpc' = "end"
    /\ UNCHANGED <<inputs, text, lang, nlp, calls, tmp, poem_lines>>
    /\ UNCHANGED <<poemVars, langVars, heurVars>>

\* main: the call  assemble_poem(words, lines=6)
CliAssemble ==
    /\ mode = "cli" /\ rpc = "classified"
    /\ words # <<>>
    /\ calls' = Append(calls, "assemble_poem")
    /\ lines' = 6
    /\ pc' = "start"
    /\ rpc' = "assembling"
    /\ UNCHANGED <<inputs, text, lang, nlp, tmp, poem_lines, outcome>>
    /\ UNCHANGED <<words, words_list, segment_size, idx, result, log>>
    /\ UNCHANGED <<langVars, heurVars>>

\* main: poem_lines = the value returned; print(); print("\n".join(poem_lines))
CliPrintPoem ==
    /\ mode = "cli" /\ rpc = "assembling"
    /\ pc = "done"
    /\ poem_lines' = result
    /\ outcome' = [kind |-> "exit", code |-> 0, stream |-> "stdout",
                   message |-> "poem"]
    /\ rpc' = "end"
    /\ UNCHANGED <<inputs, text, lang, nlp, calls, tmp>>
    /\ UNCHANGED <<poemVars, langVars, heurVars>>

\* generate: if 'image' not in request.files or ... filename == '': return ..., 400
SvcNoUpload ==
    /\ mode = "service" /\ rpc = "start"
    /\ image = "missing"
    /\ outcome' = [kind |-> "response", status |-> 400,
                   error |-> "Keine Datei hochgeladen."]
    /\ rpc' = "end"
    /\ UNCHANGED <<inputs, text, lang, nlp, calls, tmp, poem_lines>>
    /\ UNCHANGED <<poemVars, langVars, heurVars>>

\* generate: with tempfile.NamedTemporaryFile(delete=False, suffix='.png') as tmp:
\*               file.save(tmp.name); text = extract_text(tmp.name)
\* the file is created and outlives the with block; a RuntimeError of
\* extract_text leaves the block and the function, and the server answers 500
SvcSaveAndExtract ==
    /\ mode = "service" /\ rpc = "start"
    /\ image = "present"
    /\ tmp' = "exists"
    /\ calls' = Append(calls, "extract_text")
    /\ IF ~ ocr.ok
         THEN /\ outcome' = [kind |-> "response", status |-> 500,
                             error |-> "Internal Server Error"]
              /\ rpc' = "end"
              /\ UNCHANGED text
         ELSE /\ text' = ocr.text
              /\ rpc' = "saved"
              /\ UNCHANGED outcome
    /\ UNCHANGED <<inputs, lang, nlp, poem_lines>>
    /\ UNCHANGED <<poemVars, langVars, heurVars>>

\* generate: os.unlink(tmp.name)
SvcUnlink ==
    /\ mode = "service" /\ rpc = "saved"
    /\ tmp' = "deleted"
    /\ rpc' = "extracted"
    /\ UNCHANGED <<inputs, text, lang, nlp, calls, poem_lines, outcome>>
    /\ UNCHANGED <<poemVars, langVars, heurVars>>

\* generate: if not text.strip(): return jsonify({'error': ...}), 400
SvcNoText ==
    /\ mode = "service" /\ rpc = "extracted"
    /\ strip(text) = <<>>
    /\ outcome' = [kind |-> "response", status |-> 400,
                   error |-> "Kein Text im Bild gefunden."]
    /\ rpc' = "end"
    /\ UNCHANGED <<inputs, text, lang, nlp, calls, tmp, poem_lines>>
    /\ UNCHANGED <<poemVars, langVars, heurVars>>

\* generate: lang = detect_language(text)
SvcLanguage ==
    /\ mode = "service" /\ rpc = "extracted"
    /\ strip(text) # <<>>
    /\ lang' = detect_language(text)
    /\ calls' = Append(calls, "detect_language")
    /\ rpc' = "language"
    /\ UNCHANGED <<inputs, text, nlp, tmp, poem_lines, outcome>>
    /\ UNCHANGED <<poemVars, langVars, heurVars>>

\* generate: nlp = load_spacy_pipeline(lang)
SvcLoadModel ==
    /\ mode = "service" /\ rpc = "language"
    /\ nlp' = load_spacy_pipeline(lang)
    /\ calls' = Append(calls, "load_spacy_pipeline")
    /\ rpc' = "loaded"
    /\ UNCHANGED <<inputs, text, lang, tmp, poem_lines, outcome>>
    /\ UNCHANGED <<poemVars, langVars, heurVars>>

\* generate: if nlp: words = extract_nouns_verbs_spacy(text, nlp)
\*           else: words = extract_nouns_verbs_heuristic(text)
SvcClassify ==
    /\ mode = "service" /\ rpc = "loaded"
    /\ IF nlp
         THEN /\ \E ws \in SpacyResults(text) : words' = ws
              /\ calls' = Append(calls, "extract_nouns_verbs_spacy")
         ELSE /\ words' = extract_nouns_verbs_heuristic(text)
              /\ calls' = Append(calls, "extract_nouns_verbs_heuristic")
    /\ rpc' = "classified"
    /\ UNCHANGED <<inputs, text, lang, nlp, tmp, poem_lines, outcome>>
    /\ UNCHANGED <<lines, words_list, segment_size, idx, result, pc, log>>
    /\ UNCHANGED <<langVars, heurVars>>

\* generate: if not words: poem_lines = ["Keine Substantive oder Verben gefunden"] * 6
SvcNoWords ==
    /\ mode = "service" /\ rpc = "classified"
    /\ words = <<>>
    /\ poem_lines' = [i \in 1..6 |-> "Keine Substantive oder Verben gefunden"]
    /\ rpc' = "render"
    /\ UNCHANGED <<inputs, text, lang, nlp, calls, tmp, outcome>>
    /\ UNCHANGED <<poemVars, langVars, heurVars>>

\* generate: else: the call  assemble_poem(words, lines=6)
SvcAssemble ==
    /\ mode = "service" /\ rpc = "classified"
    /\ words # <<>>
    /\ calls' = Append(calls, "assemble_poem")
    /\ lines' = 6
    /\ pc' = "start"
    /\ rpc' = "assembling"
    /\ UNCHANGED <<inputs, text, lang, nlp, tmp, poem_lines, outcome>>
    /\ UNCHANGED <<words, words_list, segment_size, idx, result, log>>
    /\ UNCHANGED <<langVars, heurVars>>

\* generate: poem_lines = the value returned
SvcPoemReturned ==
    /\ mode = "service" /\ rpc = "assembling"
    /\ pc = "done"
    /\ poem_lines' = result
    /\ rpc' = "render"
    /\ UNCHANGED <<inputs, text, lang, nlp, calls, tmp, outcome>>
    /\ UNCHANGED <<poemVars, langVars, heurVars>>

\* generate: return render_template_string(..., poem="\n".join(poem_lines))
SvcRender ==
    /\ mode = "service" /\ rpc = "render"
    /\ outcome' = [kind |-> "response", status |-> 200, error |-> "none"]
    /\ rpc' = "end"
    /\ UNCHANGED <<inputs, text, lang, nlp, calls, tmp, poem_lines>>
    /\ UNCHANGED <<poemVars, langVars, heurVars>>

(***************************************************************************)
(* Specifications                                                          *)
(***************************************************************************)
\* assemble_poem on every pool and line count
Init == InitPoem /\ IdleLang /\ IdleHeur /\ IdlePipe

Next == NextPoem

Spec == Init /\ [][Next]_vars

\* detect_language on every text
InitDetect == InitLang /\ IdlePoem /\ IdleHeur /\ IdlePipe

NextDetect == DetectLanguage

SpecDetect == InitDetect /\ [][NextDetect]_vars

\* extract_nouns_verbs_heuristic on every text
InitExtract == InitHeur /\ IdlePoem /\ IdleLang /\ IdlePipe

NextExtract == ExtractHeuristic

SpecExtract == InitExtract /\ [][NextExtract]_vars

\* one request to main or to generate; assemble_poem runs inside it, on a
\* non-empty pool and with lines = 6
InitRequest == InitPipe /\ IdlePoem /\ IdleLang /\ IdleHeur

NextRequest ==
    \/ CliMissingFile
    \/ CliExtractText
    \/ CliNoText
    \/ CliLanguage
    \/ CliLoadModel
    \/ CliClassify
    \/ CliNoWords
    \/ CliAssemble
    \/ CliPrintPoem
    \/ SvcNoUpload
    \/ SvcSaveAndExtract
    \/ SvcUnlink
    \/ SvcNoText
    \/ SvcLanguage
    \/ SvcLoadModel
    \/ SvcClassify
    \/ SvcNoWords
    \/ SvcAssemble
    \/ SvcPoemReturned
    \/ SvcRender
    \/ CopyAndShuffle
    \/ ComputeSegmentSize
    \/ NextLine
    \/ ReturnPoem

SpecRequest == InitRequest /\ [][NextRequest]_vars

(***************************************************************************)
(* Properties of assemble_poem                                             *)
(***************************************************************************)
\* the words of a line: line.split(" ")
RECURSIVE SplitFrom(_, _, _)
SplitFrom(line, i, cur) ==
    IF i > Len(line) THEN <<cur>>
    ELSE IF line[i] = " " THEN <<cur>> \o SplitFrom(line, i + 1, <<>>)
    ELSE SplitFrom(line, i + 1, Append(cur, line[i]))

Split(line) == SplitFrom(line, 1, <<>>)

\* the words of the lines first..last, in order, given each line's words
RECURSIVE WordsOfLines(_, _, _)
WordsOfLines(ws, first, last) ==
    IF first > last THEN <<>>
    ELSE WordsOfLines(ws, first, last - 1) \o ws[last]

\* the line at which the pass that line i belongs to began: the last reshuffle
\* at or before line i, or line 1
PassStart(i) ==
    LET starts == {j \in 1..i : j = 1 \/ log[j].reshuffled}
    IN  CHOOSE j \in starts : \A k \in starts : k <= j

IsRearrangement(s, t) ==
    /\ Len(s) = Len(t)
    /\ \A x \in Range(s) \cup Range(t) : Count(s, x) = Count(t, x)

\* C1: assemble_poem never fails and returns exactly N lines, for every pool
\* (empty or not) and every N >= 0.
C1_ExactlyNLines ==
    /\ pc # "raised"
    /\ pc = "done" => Len(result) = lines

\* C2 as stated: for an empty pool every one of the N lines is the string
\* "(no words found)".
C2_EnglishPlaceholder ==
    (pc = "done" /\ words = <<>>) =>
        \A i \in 1..Len(result) : result[i] = Placeholder_English

\* C2 (amended): for an empty pool the result is N lines, each the string
\* "(keine Wörter gefunden)", and neither a segment size is computed nor a
\* line assembled.
C2_GermanPlaceholder ==
    (pc = "done" /\ words = <<>>) =>
        /\ Len(result) = lines
        /\ \A i \in 1..Len(result) :
             result[i] = << "(","k","e","i","n","e"," ","W","ö","r","t","e","r"," ",
                            "g","e","f","u","n","d","e","n",")" >>
        /\ segment_size = 0
        /\ log = <<>>

C2_Witness == pc = "done" /\ words = <<>> /\ lines = MaxLines

\* C3: every word of every line is a word of the input pool; the words emitted
\* since the last reshuffle are the first words of the current permutation of
\* the pool, each position used once and in order; and a reshuffle happens only
\* with the cursor at or past the end of the list.
C3_WordsFromPool ==
    (pc = "done" /\ words # <<>>) =>
        LET ws == [i \in 1..Len(result) |-> Split(result[i])]
        IN  /\ Len(log) = Len(result)
            /\ \A i \in 1..Len(result) :
                 /\ \A w \in Range(ws[i]) : w \in Range(words)
                 /\ IsRearrangement(log[i].list, words)
                 /\ LET emitted == WordsOfLines(ws, PassStart(i), i)
                    IN  /\ Len(emitted) <= Len(words)
                        /\ emitted = SubSeq(log[i].list, 1, Len(emitted))
                        /\ \A w \in Range(words) :
                             Count(emitted, w) <= Count(words, w)
                 /\ log[i].reshuffled => log[i].cursor >= Len(words)

C3_Witness ==
    /\ pc = "done"
    /\ Cardinality(Range(words)) > 1
    /\ \E i \in 3..Len(log) :
         /\ log[i].reshuffled
         /\ ~log[i - 1].reshuffled
         /\ log[i].list # log[i - 1].list

\* C4: for a non-empty pool and N >= 1, every line has between 2 and 5 words.
C4_TwoToFiveWords ==
    (pc = "done" /\ words # <<>> /\ lines >= 1) =>
        \A i \in 1..Len(result) :
            /\ Len(Split(result[i])) >= 2
            /\ Len(Split(result[i])) <= 5

\* C5: for a pool of 3 words and N = 6 the segment size is 2, line 1 takes 2
\* words and leaves the cursor at 2, line 2 is formed after a reshuffle with the
\* cursor back at 0, and every one of the 6 lines has 2 words.
C5_ThreeWordsSixLines ==
    (pc = "done" /\ Len(words) = 3 /\ lines = 6) =>
        /\ segment_size = 2
        /\ Len(Split(result[1])) = 2
        /\ log[2].cursor = 2
        /\ log[2].reshuffled
        /\ log[2].from = 0
        /\ \A i \in 1..6 : Len(Split(result[i])) = 2

\* C10: for a non-empty pool of k words and N >= 1 the segment size is
\* floor(k / N) clamped to 2..5, every line was cut with that same size, and no
\* line has more words than it.
C10_SegmentSize ==
    (pc \in {"loop", "done"} /\ words # <<>>) =>
        LET q == Len(words) \div lines
        IN  /\ segment_size = (IF q < 2 THEN 2 ELSE IF q > 5 THEN 5 ELSE q)
            /\ segment_size >= 2
            /\ segment_size <= 5
            /\ \A i \in 1..Len(log) : log[i].size = segment_size
            /\ pc = "done" =>
                 \A i \in 1..Len(result) : Len(Split(result[i])) <= segment_size

C10_Witness ==
    /\ pc = "done"
    /\ Len(words) > 1
    /\ \E i \in 1..Len(result) : Len(Split(result[i])) < segment_size
    /\ \E i \in 1..Len(result) : log[i].reshuffled

(***************************************************************************)
(* Properties of detect_language                                           *)
(***************************************************************************)
Contains(txt, chars) == \E i \in 1..Len(txt) : txt[i] \in chars

\* C6 as stated: the result is "de" if the text contains one of the four
\* characters ä, ö, ü, ß and "en" for every text that contains none of them.
C6_FourCharacters ==
    dl_ret # "none" =>
        dl_ret = (IF Contains(dl_text, {"ä", "ö", "ü", "ß"}) THEN "de" ELSE "en")

\* C6 (amended): the result is "de" if the text contains one of the seven
\* characters ä, ö, ü, Ä, Ö, Ü, ß and "en" for every text that contains none
\* of them; it is always one of the two codes, the empty text included.
C6_SevenCharacters ==
    dl_ret # "none" =>
        /\ dl_ret \in {"de", "en"}
        /\ dl_ret = (IF Contains(dl_text, {"ä", "ö", "ü", "Ä", "Ö", "Ü", "ß"})
                     THEN "de" ELSE "en")

C6_Witness ==
    /\ dl_ret = "de"
    /\ Contains(dl_text, {"Ä", "Ö", "Ü"})
    /\ ~Contains(dl_text, {"ä", "ö", "ü", "ß"})

(***************************************************************************)
(* Properties of extract_nouns_verbs_heuristic                             *)
(***************************************************************************)
\* the claim's rule for one token
C7_Keeps(token) ==
    /\ Len(token) > 1
    /\ ~ isdigit(token)
    /\ \/ IsUpper(token[1])
       \/ \E e \in { <<"e","n">>, <<"s","t">>, <<"t">>, <<"e","n","d">> } :
              EndsWith(lower(token), e)
       \/ isalpha(token) /\ Len(token) > 3

\* C7: the result is the tokens of the text that the rule keeps, in document
\* order, with their original text and with duplicates retained.
\* C7's examples: "Apfel", "rennen" and "wonderful" are kept, "big" is not.
C7_Examples(tokens, kept) ==
    /\ \A t \in { <<"A","p","f","e","l">>, <<"r","e","n","n","e","n">>,
                   <<"w","o","n","d","e","r","f","u","l">> } :
           Count(kept, t) = Count(tokens, t)
    /\ Count(kept, <<"b","i","g">>) = 0

Called(f) == \E i \in 1..Len(calls) : calls[i] = f

IsBlank(t) == \A i \in 1..Len(t) : t[i] \in {" ", "\n", "\t"}

\* C8: in both modes, when OCR returns empty or whitespace-only text, the
\* request ends in the "no text found" outcome (main: a message and exit code
\* 0; generate: a 400 response with an error) and never calls language
\* detection, model loading, a word classifier or the poem assembler.
C8_NoTextShortCircuit ==
    (Called("extract_text") /\ ocr.ok /\ IsBlank(ocr.text)) =>
        /\ ~ Called("detect_language")
        /\ ~ Called("load_spacy_pipeline")
        /\ ~ Called("extract_nouns_verbs_spacy")
        /\ ~ Called("extract_nouns_verbs_heuristic")
        /\ ~ Called("assemble_poem")
        /\ rpc = "end" =>
             \/ /\ mode = "cli"
                /\ outcome = [kind |-> "exit", code |-> 0, stream |-> "stdout",
                              message |-> "No text detected in the image."]
             \/ /\ mode = "service"
                /\ outcome = [kind |-> "response", status |-> 400,
                              error |-> "Kein Text im Bild gefunden."]

C8_Witness ==
    /\ rpc = "end"
    /\ mode = "service"
    /\ Called("extract_text")
    /\ ocr = [ok |-> TRUE, text |-> <<" ", "\n">>]

\* C9: once generate has created the temporary file, the request does not end
\* with the file still present: on success, on empty text, and when
\* extract_text raises.
C9_TempFileDeleted ==
    (mode = "service" /\ rpc = "end" /\ tmp # "none") => tmp = "deleted"

====
